---- MODULE Spec2Model ----
(***************************************************************************)
(* generate-content.js: one invocation of generateContent() builds a       *)
(* prompt, posts it to the completion endpoint, extracts a JSON object     *)
(* from the reply, overwrites its date and writes it to data/today.json.   *)
(*                                                                         *)
(* Text is modelled as a sequence of lexemes.  The reply alphabet is       *)
(*   "{"  "}"  ","   the JSON punctuation,                                 *)
(*   "d"           the member text  "date":"2024-1-1",                     *)
(*   "a"           the member text  "a":"v".                               *)
(* Any lexeme outside the extracted object is surrounding prose.           *)
(* An optional JavaScript value is a sequence of length 0 (undefined) or   *)
(* 1 (the value).  An object is the sequence of its [key, value] members   *)
(* in insertion order.  A file's content is a sequence of lines.           *)
(***************************************************************************)
EXTENDS Naturals, Sequences, FiniteSets, TLC

VARIABLES
    env,        \* process.env.AI_API_KEY: <<>> (unset), <<"">> or <<key>>
    pc,         \* position of the run in generateContent
    dateStr,    \* const dateStr (line 15), <<>> before it is computed
    calls,      \* requests issued to the completion endpoint by this run
    outcome,    \* what the transport did with the request
    response,   \* const response (line 64): <<>> or <<response.data>>
    aiReply,    \* const aiReply (line 73)
    healthData, \* const healthData (line 79)
    dirExists,  \* whether <cwd>/data exists
    file,       \* <cwd>/data/today.json: <<>> (absent) or <<content>>
    mkdirs,     \* fs.mkdir calls of this run
    writes,     \* fs.writeFile calls of this run
    err,        \* the error caught at line 98, <<>> if none
    logged,     \* what the catch block printed, <<>> if nothing
    exitCode,   \* <<>> while the process runs, then <<0>> or <<1>>
    dirBefore,  \* dirExists when this run started
    before,     \* file when this run started
    run,        \* 1 for the first invocation, 2 for the one after it
    first       \* <<>> or <<[reply, dateStr, file]>> of the first, successful run

vars == <<env, pc, dateStr, calls, outcome, response, aiReply, healthData,
          dirExists, file, mkdirs, writes, err, logged, exitCode,
          dirBefore, before, run, first>>

\* Longest reply text, in lexemes.
MaxLen == 5

Tokens == {"{", "}", ",", "d", "a"}

Replies == UNION {[1..n -> Tokens] : n \in 0..MaxLen}

\* The instants new Date() can return, as civil dates in Asia/Shanghai.
Clock == {[y |-> "2024", m |-> "1", d |-> "1"], [y |-> "2024", m |-> "2", d |-> "2"]}

\* toLocaleDateString('zh-CN', {timeZone: 'Asia/Shanghai'}) gives y/m/d
\* without padding; replace(/\//g, '-') turns every "/" into "-".
DateStr(t) == t.y \o "-" \o t.m \o "-" \o t.d

EnvValues == {<<>>, <<"">>, <<"sk-key">>}

\* JavaScript truthiness of an optional string: undefined and "" are falsy.
Truthy(v) == v # <<>> /\ v[1] # ""

----------------------------------------------------------------------------
(* Errors and the catch block *)

MakeError(name, message) ==
    [name |-> name, message |-> message, response |-> <<>>,
     request |-> FALSE, syscall |-> ""]

ConfigError == MakeError("Error", "AI_API_KEY not found")

NoJsonError == MakeError("Error", "no valid JSON found in the AI reply")

JsonSyntaxError == MakeError("SyntaxError", "Unexpected token in JSON")

ShapeTypeError == MakeError("TypeError", "Cannot read properties of undefined")

FsError(syscall) ==
    [name |-> "SystemError", message |-> "fs failure", response |-> <<>>,
     request |-> FALSE, syscall |-> syscall]

\* axios rejects with error.response set when an HTTP response arrived with a
\* non-2xx status, and with only error.request set when none arrived.
HttpStatuses == {"401", "429"}

AxiosHttpError(status) ==
    [name |-> "AxiosError", message |-> "Request failed with status code",
     response |-> <<[status |-> status, data |-> "error payload " \o status]>>,
     request |-> TRUE, syscall |-> ""]

AxiosNoResponse ==
    [name |-> "AxiosError", message |-> "timeout of 30000ms exceeded",
     response |-> <<>>, request |-> TRUE, syscall |-> ""]

\* Variant of CatchLog that tests error.request before error.response.
CatchLogRequestFirst(e) ==
    IF e.request
    THEN [branch |-> "network", status |-> "", detail |-> ""]
    ELSE IF e.response # <<>>
    THEN [branch |-> "api", status |-> e.response[1].status,
          detail |-> e.response[1].data]
    ELSE [branch |-> "script", status |-> "", detail |-> e.message]

\* Lines 100-110: what the catch block prints.
CatchLog(e) ==
    IF e.response # <<>>
    THEN [branch |-> "api", status |-> e.response[1].status,
          detail |-> e.response[1].data]
    ELSE IF e.request
    THEN [branch |-> "network", status |-> "", detail |-> ""]
    ELSE [branch |-> "script", status |-> "", detail |-> e.message]

\* Variant of FailureExitCode without process.exit(1): the process ends with 0.
ExitCodeWithoutExit == <<0>>

\* Line 112.
FailureExitCode == <<1>>

\* A throw inside the try block: lines 98-113 log it and exit the process.
Throw(e) ==
    /\ pc' = "Failed"
    /\ err' = <<e>>
    /\ logged' = <<CatchLog(e)>>
    /\ exitCode' = FailureExitCode

NoThrow == UNCHANGED <<err, logged, exitCode>>

----------------------------------------------------------------------------
(* Reply extraction and JSON *)

RECURSIVE FirstIndex(_, _, _)
\* Least i >= from with s[i] = c, or 0.
FirstIndex(s, c, from) ==
    IF from > Len(s) THEN 0
    ELSE IF s[from] = c THEN from
    ELSE FirstIndex(s, c, from + 1)

RECURSIVE LastIndex(_, _, _)
\* Greatest i <= from with s[i] = c, or 0.
LastIndex(s, c, from) ==
    IF from < 1 THEN 0
    ELSE IF s[from] = c THEN from
    ELSE LastIndex(s, c, from - 1)

\* aiReply.match(/\{[\s\S]*\}/): the leftmost "{" that has a "}" after it,
\* extended greedily to the last "}" of the text; null (<<>>) if there is none.
RegexMatch(s) ==
    LET i == FirstIndex(s, "{", 1)
        j == LastIndex(s, "}", Len(s))
    IN  IF i > 0 /\ j > i THEN <<SubSeq(s, i, j)>> ELSE <<>>

\* The member a member lexeme denotes.
Member(tok) ==
    IF tok = "d" THEN [key |-> "date", value |-> "2024-1-1"]
    ELSE [key |-> "a", value |-> "v"]

HasKey(obj, k) == \E i \in 1..Len(obj) : obj[i].key = k

\* obj[k] = v: an existing key keeps its position, a new key is appended.
Put(obj, k, v) ==
    IF HasKey(obj, k)
    THEN [i \in 1..Len(obj) |->
            IF obj[i].key = k THEN [key |-> k, value |-> v] ELSE obj[i]]
    ELSE Append(obj, [key |-> k, value |-> v])

RECURSIVE ParseMembers(_, _, _)
\* Members from position i on: member ("," member)* "}" and then the end.
ParseMembers(s, i, obj) ==
    IF i + 1 > Len(s) \/ s[i] \notin {"d", "a"} THEN <<>>
    ELSE LET m == Member(s[i])
             o == Put(obj, m.key, m.value)
         IN  IF s[i + 1] = "}" THEN (IF i + 1 = Len(s) THEN <<o>> ELSE <<>>)
             ELSE IF s[i + 1] = "," THEN ParseMembers(s, i + 2, o)
             ELSE <<>>

\* Variant of JSONparse that stops at the end of an empty object without
\* requiring the end of the text.
JSONparseLenient(s) ==
    IF Len(s) < 2 \/ s[1] # "{" THEN <<>>
    ELSE IF s[2] = "}" THEN <<<<>>>>
    ELSE ParseMembers(s, 2, <<>>)

\* JSON.parse(text): <<object>>, or <<>> when it throws SyntaxError.
JSONparse(s) ==
    IF Len(s) < 2 \/ s[1] # "{" THEN <<>>
    ELSE IF s[2] = "}" THEN (IF Len(s) = 2 THEN <<<<>>>> ELSE <<>>)
    ELSE ParseMembers(s, 2, <<>>)

\* JSON.stringify(obj, null, 2): one line per brace and per member, members
\* indented by two spaces and separated by commas; "{}" for no members.
JSONstringify(obj) ==
    IF Len(obj) = 0
    THEN <<[text |-> "{}", key |-> "", value |-> "", comma |-> FALSE]>>
    ELSE <<[text |-> "{", key |-> "", value |-> "", comma |-> FALSE]>>
         \o [i \in 1..Len(obj) |->
               [text |-> "  ", key |-> obj[i].key, value |-> obj[i].value,
                comma |-> i < Len(obj)]]
         \o <<[text |-> "}", key |-> "", value |-> "", comma |-> FALSE]>>

----------------------------------------------------------------------------
(* The run *)

\* A record left in data/today.json by an earlier day's run.
OldContent == JSONstringify(<<[key |-> "date", value |-> "2023-12-31"]>>)

Init ==
    /\ env \in EnvValues
    /\ \/ dirExists = FALSE /\ file = <<>>
       \/ dirExists = TRUE /\ file = <<>>
       \/ dirExists = TRUE /\ file = <<OldContent>>
    /\ pc = "Init"
    /\ dateStr = <<>>
    /\ calls = 0
    /\ outcome = "none"
    /\ response = <<>>
    /\ aiReply = <<>>
    /\ healthData = <<>>
    /\ mkdirs = 0
    /\ writes = 0
    /\ err = <<>>
    /\ logged = <<>>
    /\ exitCode = <<>>
    /\ dirBefore = dirExists
    /\ before = file
    /\ run = 1
    /\ first = <<>>

\* Variant of KeyMissing that tests for undefined only (AI_API_KEY === undefined).
KeyMissingUndefinedOnly(key) == key = <<>>

\* Line 20: if (!AI_API_KEY).
KeyMissing(key) == ~Truthy(key)

\* Lines 10-53: the date, the credential check and the prompt.
ReadConfig ==
    /\ pc = "Init"
    /\ \E t \in Clock : dateStr' = <<DateStr(t)>>
    /\ IF KeyMissing(env)
       THEN Throw(ConfigError)
       ELSE pc' = "PromptBuilt" /\ NoThrow
    /\ UNCHANGED <<env, calls, outcome, response, aiReply, healthData, dirExists,
                   file, mkdirs, writes, dirBefore, before, run, first>>

\* Lines 56-70: axios.post is called and the run suspends on it.
PostRequest ==
    /\ pc = "PromptBuilt"
    /\ calls' = calls + 1
    /\ pc' = "Awaiting"
    /\ UNCHANGED <<env, dateStr, outcome, response, aiReply, healthData, dirExists,
                   file, mkdirs, writes, err, logged, exitCode, dirBefore, before,
                   run, first>>

\* The replies the endpoint can give: any text for a first run; the run that
\* follows a successful one is given the same reply again.
ReplyChoices == IF first = <<>> THEN Replies ELSE {first[1].reply}

\* response.data as the transport can deliver it: choices is empty
\* (choices |-> 0), or holds one message whose content is a reply text.
ResponseData ==
    [choices : {1}, content : ReplyChoices]
        \cup {[choices |-> 0, content |-> <<>>]}

\* Line 64 resolves: a 2xx response.
ApiSuccess ==
    /\ pc = "Awaiting"
    /\ response' \in [1..1 -> ResponseData]
    /\ outcome' = "ok"
    /\ pc' = "ApiCalled"
    /\ UNCHANGED <<env, dateStr, calls, aiReply, healthData, dirExists, file,
                   mkdirs, writes, err, logged, exitCode, dirBefore, before, run,
                   first>>

\* Line 64 rejects: a response with a non-2xx status arrived.
ApiErrorResponse ==
    /\ pc = "Awaiting"
    /\ outcome' = "http"
    /\ \E s \in HttpStatuses : Throw(AxiosHttpError(s))
    /\ UNCHANGED <<env, dateStr, calls, response, aiReply, healthData, dirExists,
                   file, mkdirs, writes, dirBefore, before, run, first>>

\* Variant of ApiNoResponse that posts the request again instead of failing.
ApiNoResponseRetry ==
    /\ pc = "Awaiting"
    /\ outcome' = "noresp"
    /\ pc' = "PromptBuilt"
    /\ UNCHANGED <<env, dateStr, calls, response, aiReply, healthData, dirExists,
                   file, mkdirs, writes, err, logged, exitCode, dirBefore, before,
                   run, first>>

\* Line 64 rejects: no response arrived (DNS, connection, the 30 s timeout).
ApiNoResponse ==
    /\ pc = "Awaiting"
    /\ outcome' = "noresp"
    /\ Throw(AxiosNoResponse)
    /\ UNCHANGED <<env, dateStr, calls, response, aiReply, healthData, dirExists,
                   file, mkdirs, writes, dirBefore, before, run, first>>

\* Variant of SetDate that keeps a date the reply already has
\* (healthData.date = healthData.date || dateStr).
SetDateIfAbsent(obj, d) == IF HasKey(obj, "date") THEN obj ELSE Put(obj, "date", d)

\* Line 81: healthData.date = dateStr.
SetDate(obj, d) == Put(obj, "date", d)

\* Lines 73-81: the reply text, the regex match, JSON.parse and the date.
ExtractAndParse ==
    /\ pc = "ApiCalled"
    /\ IF response[1].choices = 0
       THEN Throw(ShapeTypeError) /\ UNCHANGED <<aiReply, healthData>>
       ELSE LET r == response[1].content
                m == RegexMatch(r)
            IN  /\ aiReply' = <<r>>
                /\ IF m = <<>>
                   THEN Throw(NoJsonError) /\ UNCHANGED healthData
                   ELSE IF JSONparse(m[1]) = <<>>
                   THEN Throw(JsonSyntaxError) /\ UNCHANGED healthData
                   ELSE /\ healthData' = <<SetDate(JSONparse(m[1])[1], dateStr[1])>>
                        /\ pc' = "ReplyValidated"
                        /\ NoThrow
    /\ UNCHANGED <<env, dateStr, calls, outcome, response, dirExists, file, mkdirs,
                   writes, dirBefore, before, run, first>>

\* Lines 88-92: fs.access(dataDir), and fs.mkdir when it rejects.
AccessDir ==
    /\ pc = "ReplyValidated"
    /\ IF dirExists
       THEN pc' = "DirReady" /\ UNCHANGED mkdirs
       ELSE pc' = "MkdirPending" /\ mkdirs' = mkdirs + 1
    /\ UNCHANGED <<env, dateStr, calls, outcome, response, aiReply, healthData,
                   dirExists, file, writes, err, logged, exitCode, dirBefore,
                   before, run, first>>

\* Line 91 resolves: the directory now exists.
MkdirOk ==
    /\ pc = "MkdirPending"
    /\ dirExists' = TRUE
    /\ pc' = "DirReady"
    /\ UNCHANGED <<env, dateStr, calls, outcome, response, aiReply, healthData,
                   file, mkdirs, writes, err, logged, exitCode, dirBefore, before,
                   run, first>>

\* Line 91 rejects (EACCES, EROFS, ...).
MkdirFail ==
    /\ pc = "MkdirPending"
    /\ Throw(FsError("mkdir"))
    /\ UNCHANGED <<env, dateStr, calls, outcome, response, aiReply, healthData,
                   dirExists, file, mkdirs, writes, dirBefore, before, run, first>>

\* Variant of WriteOpen with flag 'a': an existing file keeps its content.
WriteOpenAppend ==
    /\ pc = "DirReady"
    /\ writes' = writes + 1
    /\ file' = IF file = <<>> THEN <<<<>>>> ELSE file
    /\ pc' = "FileOpen"
    /\ UNCHANGED <<env, dateStr, calls, outcome, response, aiReply, healthData,
                   dirExists, mkdirs, err, logged, exitCode, dirBefore, before,
                   run, first>>

\* Line 94, first half: fs.writeFile opens the path with flag 'w', which
\* creates the file or truncates it to length 0.
WriteOpen ==
    /\ pc = "DirReady"
    /\ writes' = writes + 1
    /\ file' = <<<<>>>>
    /\ pc' = "FileOpen"
    /\ UNCHANGED <<env, dateStr, calls, outcome, response, aiReply, healthData,
                   dirExists, mkdirs, err, logged, exitCode, dirBefore, before,
                   run, first>>

\* Line 94 rejects at the open (EACCES, EISDIR, ...): the file is not touched.
WriteOpenFail ==
    /\ pc = "DirReady"
    /\ writes' = writes + 1
    /\ Throw(FsError("open"))
    /\ UNCHANGED <<env, dateStr, calls, outcome, response, aiReply, healthData,
                   dirExists, file, mkdirs, dirBefore, before, run, first>>

\* Line 94, second half: the serialized record is written to the open file.
WriteData ==
    /\ pc = "FileOpen"
    /\ file' = <<file[1] \o JSONstringify(healthData[1])>>
    /\ pc' = "Written"
    /\ UNCHANGED <<env, dateStr, calls, outcome, response, aiReply, healthData,
                   dirExists, mkdirs, writes, err, logged, exitCode, dirBefore,
                   before, run, first>>

\* Line 94 rejects during the write (ENOSPC, EIO, ...): the file keeps the
\* part that was written, any proper prefix of the text.
WriteDataFail ==
    /\ pc = "FileOpen"
    /\ \E k \in 0..(Len(JSONstringify(healthData[1])) - 1) :
          file' = <<file[1] \o SubSeq(JSONstringify(healthData[1]), 1, k)>>
    /\ Throw(FsError("write"))
    /\ UNCHANGED <<env, dateStr, calls, outcome, response, aiReply, healthData,
                   dirExists, mkdirs, writes, dirBefore, before, run, first>>

\* Lines 95-96 and the return: the process ends with exit code 0.
Finish ==
    /\ pc = "Written"
    /\ pc' = "Done"
    /\ exitCode' = <<0>>
    /\ UNCHANGED <<env, dateStr, calls, outcome, response, aiReply, healthData,
                   dirExists, file, mkdirs, writes, err, logged, dirBefore, before,
                   run, first>>

\* Line 117 again: the scheduler invokes the script once more after a run
\* that succeeded, in a fresh process over the same working directory.
Rerun ==
    /\ pc = "Done"
    /\ run = 1
    /\ run' = 2
    /\ first' = <<[reply |-> aiReply[1], dateStr |-> dateStr[1], file |-> file]>>
    /\ pc' = "Init"
    /\ dateStr' = <<>>
    /\ calls' = 0
    /\ outcome' = "none"
    /\ response' = <<>>
    /\ aiReply' = <<>>
    /\ healthData' = <<>>
    /\ mkdirs' = 0
    /\ writes' = 0
    /\ err' = <<>>
    /\ logged' = <<>>
    /\ exitCode' = <<>>
    /\ dirBefore' = dirExists
    /\ before' = file
    /\ UNCHANGED <<env, dirExists, file>>

Next ==
    \/ ReadConfig
    \/ PostRequest
    \/ ApiSuccess
    \/ ApiErrorResponse
    \/ ApiNoResponse
    \/ ExtractAndParse
    \/ AccessDir
    \/ MkdirOk
    \/ MkdirFail
    \/ WriteOpen
    \/ WriteOpenFail
    \/ WriteData
    \/ WriteDataFail
    \/ Finish

\* One invocation of the script.
Spec == Init /\ [][Next]_vars

\* One invocation whose every pending step is eventually taken: the request
\* is bounded by the 30 s timeout and the fs promises settle.
FairSpec == Spec /\ WF_vars(Next)

NextTwice == Next \/ Rerun

\* Two invocations in sequence.
SpecTwice == Init /\ [][NextTwice]_vars

----------------------------------------------------------------------------
(* Vocabulary of the properties *)

Terminal == {"Done", "Failed"}

ExitedNonZero == exitCode # <<>> /\ exitCode[1] # 0

\* The output file and its directory are as the run found them.
OutputUntouched == file = before /\ dirExists = dirBefore

\* Some "{" of the text has a "}" after it.
HasBraceSpan(s) ==
    \E i \in 1..Len(s) : \E j \in (i + 1)..Len(s) : s[i] = "{" /\ s[j] = "}"

\* The JSON grammar on lexemes: "{" "}" or "{" member ("," member)* "}".
WellFormedObject(s) ==
    /\ Len(s) >= 2
    /\ s[1] = "{"
    /\ s[Len(s)] = "}"
    /\ \/ Len(s) = 2
       \/ /\ Len(s) % 2 = 1
          /\ \A i \in 2..(Len(s) - 1) :
                IF i % 2 = 0 THEN s[i] \in {"d", "a"} ELSE s[i] = ","

\* The places <<i, j>> of a text where a well-formed object stands.
ObjectSpans(s) ==
    {ij \in (1..Len(s)) \X (1..Len(s)) :
        ij[1] < ij[2] /\ WellFormedObject(SubSeq(s, ij[1], ij[2]))}

\* The key/value pairs of an object, and those a file's lines spell out.
FieldsOfObject(obj) == {<<obj[i].key, obj[i].value>> : i \in 1..Len(obj)}

FieldsOfFile(content) ==
    {<<content[i].key, content[i].value>> :
        i \in {n \in 1..Len(content) : content[n].text = "  "}}

\* The object JSON.parse returned for the reply of a run that got past it.
ParsedFromReply == JSONparse(RegexMatch(aiReply[1])[1])[1]

\* The states of the run's state machine, from the positions in the code.
Phase(p) ==
    CASE p = "Init" -> "Init"
      [] p \in {"PromptBuilt", "Awaiting"} -> "PromptBuilt"
      [] p = "ApiCalled" -> "ApiCalled"
      [] p \in {"ReplyValidated", "MkdirPending", "DirReady", "FileOpen"} ->
            "ReplyValidated"
      [] p = "Written" -> "Written"
      [] p = "Done" -> "Done"
      [] p = "Failed" -> "Failed"

PhaseChain ==
    {<<"Init", "PromptBuilt">>, <<"PromptBuilt", "ApiCalled">>,
     <<"ApiCalled", "ReplyValidated">>, <<"ReplyValidated", "Written">>,
     <<"Written", "Done">>}

\* The order of the positions in the code.
Rank(p) ==
    CASE p = "Init" -> 0
      [] p = "PromptBuilt" -> 1
      [] p = "Awaiting" -> 2
      [] p = "ApiCalled" -> 3
      [] p = "ReplyValidated" -> 4
      [] p = "MkdirPending" -> 5
      [] p = "DirReady" -> 6
      [] p = "FileOpen" -> 7
      [] p = "Written" -> 8
      [] p = "Done" -> 9
      [] p = "Failed" -> 10

----------------------------------------------------------------------------
(* The claims *)

\* C1: with AI_API_KEY unset or empty the run never gets past the credential
\* check: it issues no request, creates and writes nothing, and once it has
\* acted it has failed with the configuration error and a non-zero exit code.
C1_NoCredentialNoCall ==
    (env = <<>> \/ env = <<"">>) =>
        /\ calls = 0
        /\ writes = 0
        /\ mkdirs = 0
        /\ OutputUntouched
        /\ pc \in {"Init", "Failed"}
        /\ pc = "Failed" =>
              /\ err = <<ConfigError>>
              /\ logged[1].branch = "script"
              /\ ExitedNonZero

C1_Witness == env = <<"">> /\ pc = "Failed" /\ calls = 0 /\ exitCode = <<1>>

\* C2: after a successful write the file spells out the object parsed from
\* the reply with its date set to the locally computed date: date is dateStr
\* whether or not the reply had one, every other field is as parsed.
C2_WrittenIsParsedWithLocalDate ==
    pc \in {"Written", "Done"} =>
        /\ \E t \in Clock : dateStr = <<DateStr(t)>>
        /\ FieldsOfFile(file[1]) =
              {f \in FieldsOfObject(ParsedFromReply) : f[1] # "date"}
                 \cup {<<"date", dateStr[1]>>}

C2_Witness ==
    /\ pc = "Done"
    /\ aiReply = <<<<"{", "d", ",", "a", "}">>>>
    /\ dateStr = <<"2024-2-2">>
    /\ FieldsOfFile(file[1]) = {<<"date", "2024-2-2">>, <<"a", "v">>}

\* C3 (as stated): every failed run exits non-zero and leaves the content of
\* a previously existing output file as it was.
C3_FailureLeavesFileUntouched ==
    pc = "Failed" => ExitedNonZero /\ (before # <<>> => file = before)

\* C4 (as stated): when the reply holds one well-formed object, whatever
\* stands before and after it, the match is exactly that object and the run
\* does not fail as malformed.
C4_ExtractsEmbeddedObject ==
    (aiReply # <<>> /\ Cardinality(ObjectSpans(aiReply[1])) = 1) =>
        /\ err \notin {<<NoJsonError>>, <<JsonSyntaxError>>}
        /\ \A ij \in ObjectSpans(aiReply[1]) :
              RegexMatch(aiReply[1]) = <<SubSeq(aiReply[1], ij[1], ij[2])>>

\* C5: a reply with no "{...}" span, or whose extracted span is not
\* well-formed JSON, fails the run with the matching script error; no
\* directory or file is created or written and the exit code is non-zero.
C5_MalformedReplyFails ==
    (aiReply # <<>> /\ (~HasBraceSpan(aiReply[1])
                        \/ ~WellFormedObject(RegexMatch(aiReply[1])[1]))) =>
        /\ pc = "Failed"
        /\ err = IF HasBraceSpan(aiReply[1])
                 THEN <<JsonSyntaxError>> ELSE <<NoJsonError>>
        /\ logged[1].branch = "script"
        /\ writes = 0
        /\ mkdirs = 0
        /\ OutputUntouched
        /\ ExitedNonZero

C5_Witness ==
    /\ aiReply = <<<<"{", "a", ",", "}">>>>
    /\ pc = "Failed"
    /\ err = <<JsonSyntaxError>>
    /\ before = <<OldContent>>
    /\ file = <<OldContent>>

\* C6: a failed API call is reported as an API error, with the status and
\* payload of the response, exactly when a response arrived, and as a
\* network error exactly when none did; neither writes a file.
C6_ApiFailureClassified ==
    /\ outcome = "http" =>
          /\ pc = "Failed"
          /\ logged[1].branch = "api"
          /\ logged[1].status \in HttpStatuses
          /\ logged[1].status = err[1].response[1].status
          /\ logged[1].detail = err[1].response[1].data
    /\ outcome = "noresp" =>
          /\ pc = "Failed"
          /\ logged[1].branch = "network"
    /\ outcome \in {"http", "noresp"} =>
          writes = 0 /\ OutputUntouched /\ ExitedNonZero
    /\ logged # <<>> =>
          /\ logged[1].branch = "api" => outcome = "http"
          /\ logged[1].branch = "network" => outcome = "noresp"

C6_Witness ==
    /\ outcome = "http"
    /\ pc = "Failed"
    /\ logged = <<[branch |-> "api", status |-> "429",
                   detail |-> "error payload 429"]>>

\* C7 (as stated): in every state the file holds its complete previous
\* content (or is absent as before) or the complete new record.
C7_NoPartialWriteVisible ==
    \/ file = before
    \/ healthData # <<>> /\ file = <<JSONstringify(healthData[1])>>

\* C8: the run moves only forward along Init, PromptBuilt, ApiCalled,
\* ReplyValidated, Written, Done or from a non-terminal state to Failed;
\* nothing happens after Done or Failed; the file is written only once the
\* reply is validated; the run ends in Done or Failed; it has exit code 0
\* exactly when it is Done and a non-zero one exactly when it is Failed.
C8_StateMachine ==
    /\ [][/\ pc \notin Terminal
          /\ \/ Phase(pc') = Phase(pc)
             \/ <<Phase(pc), Phase(pc')>> \in PhaseChain
             \/ Phase(pc') = "Failed"]_vars
    /\ []((writes > 0 \/ file # before) =>
             /\ healthData # <<>>
             /\ Phase(pc) \in {"ReplyValidated", "Written", "Done", "Failed"})
    /\ [](exitCode = <<0>> <=> pc = "Done")
    /\ [](ExitedNonZero <=> pc = "Failed")
    /\ <>(pc \in Terminal)

C8_Witness == pc = "Done" /\ exitCode = <<0>> /\ writes = 1 /\ file # before

\* C9: a run sends at most one request, calls mkdir and writeFile at most
\* once each, and every step takes it to a later position in the code: no
\* step is executed again, and a failure ends the run.
C9_NoRetries ==
    /\ [](calls <= 1 /\ writes <= 1 /\ mkdirs <= 1)
    /\ [][Rank(pc') > Rank(pc)]_vars
    /\ [](err # <<>> => pc = "Failed")

C9_Witness == pc = "Failed" /\ outcome = "noresp" /\ calls = 1

\* C10: a run that follows a successful one finds the directory and the file
\* in place: it never calls mkdir nor fails on the directory, and when it is
\* given the same reply on the same date, the file it writes is the file the
\* first run left.
C10_SecondRunIdempotent ==
    run = 2 =>
        /\ dirBefore /\ before = first[1].file /\ before # <<>>
        /\ mkdirs = 0
        /\ err # <<>> => err[1].syscall # "mkdir"
        /\ (/\ pc \in {"Written", "Done"}
            /\ aiReply = <<first[1].reply>>
            /\ dateStr = <<first[1].dateStr>>) => file = first[1].file

C10_Witness ==
    /\ run = 2
    /\ pc = "Done"
    /\ aiReply = <<first[1].reply>>
    /\ dateStr = <<first[1].dateStr>>
    /\ file = first[1].file
    /\ Len(file[1]) > 1

====
